---- MODULE Spec2Model ----
(***************************************************************************)
(* A model of pyStocks' metric-derivation pipeline (fundamentals.py,       *)
(* valuation.py, growth.py, utils.py) and of the Stock accessor object     *)
(* (core.py) with its DataFetcher (fetch.py).                              *)
(*                                                                         *)
(* Floating-point cells are modelled as exact extended rationals           *)
(* [n, d]: d > 0 is the finite value n/d in lowest terms, d = 0 with       *)
(* n = 1 / n = -1 is +inf / -inf, and n = d = 0 is NaN (pandas' null).     *)
(* Column names and date labels are strings; where the code inspects one   *)
(* character by character it is taken apart with Chars and put together    *)
(* again with Str, over the finite table of strings the model can produce. *)
(***************************************************************************)
EXTENDS Integers, Sequences, FiniteSets, TLC

VARIABLES
    income_stmt,      \* raw income statement handed to the pipeline
    cashflow_stmt,    \* raw cash-flow statement
    balance_sheet,    \* raw balance sheet
    raw_valuation,    \* raw valuation_measures table
    df,               \* metric table handed to compute_growth
    periods,          \* compute_growth's lag
    fill_method,      \* pandas' default fill of Series.pct_change ("pad" before pandas 3, "none" from it)
    cagr_args,        \* [start, end, periods] handed to cagr
    identifier,       \* the characters of the identifier handed to split_camel_case
    called,           \* the function applied to the inputs ("none" before the call)
    result,           \* what the call returned, or the exception it raised
    cache,            \* Stock.__dict__: the accessors whose value is cached
    calls,            \* the DataFetcher calls made so far, in order
    history_params,   \* Stock._history_params
    kwargs,           \* keyword arguments of the last call stock.refresh_history(...)
    reads             \* number of accessor reads performed

inputVars == <<income_stmt, cashflow_stmt, balance_sheet, raw_valuation, df, periods, fill_method, cagr_args, identifier>>
callVars  == <<called, result>>
stockVars == <<cache, calls, history_params, kwargs, reads>>
vars      == <<inputVars, callVars, stockVars>>

(***************************************************************************)
(* Floating-point values                                                   *)
(***************************************************************************)
Abs(x) == IF x < 0 THEN -x ELSE x

Sign(x) == IF x < 0 THEN -1 ELSE IF x > 0 THEN 1 ELSE 0

RECURSIVE GCD(_, _)
GCD(a, b) == IF b = 0 THEN a ELSE GCD(b, a % b)

NaN == [n |-> 0, d |-> 0]

PosInf == [n |-> 1, d |-> 0]

NegInf == [n |-> -1, d |-> 0]

\* The float n/d (d # 0) in lowest terms with a positive denominator.
Frac(n, d) ==
    LET g == GCD(Abs(n), Abs(d))
    IN  [n |-> Sign(d) * (n \div g), d |-> Abs(d) \div g]

Num(x) == [n |-> x, d |-> 1]

IsNaN(v) == v.d = 0 /\ v.n = 0

IsInf(v) == v.d = 0 /\ v.n # 0

IsFinite(v) == v.d > 0

\* pandas.isna: NaN is null, +-inf is not.
IsNull(v) == IsNaN(v)

Neg(a) == [n |-> -a.n, d |-> a.d]

Add(a, b) ==
    IF IsNaN(a) \/ IsNaN(b) THEN NaN
    ELSE IF IsInf(a) /\ IsInf(b) THEN (IF a.n = b.n THEN a ELSE NaN)
    ELSE IF IsInf(a) THEN a
    ELSE IF IsInf(b) THEN b
    ELSE Frac(a.n * b.d + b.n * a.d, a.d * b.d)

Sub(a, b) == Add(a, Neg(b))

Mul(a, b) ==
    IF IsNaN(a) \/ IsNaN(b) THEN NaN
    ELSE IF IsInf(a) \/ IsInf(b)
         THEN (IF a.n = 0 \/ b.n = 0 THEN NaN
               ELSE IF Sign(a.n) = Sign(b.n) THEN PosInf ELSE NegInf)
    ELSE Frac(a.n * b.n, a.d * b.d)

\* numpy float division, as pandas applies it to Series: x/0 is +-inf for
\* x # 0 and NaN for x = 0; nothing is raised.
Div(a, b) ==
    IF IsNaN(a) \/ IsNaN(b) THEN NaN
    ELSE IF IsInf(b) THEN (IF IsInf(a) THEN NaN ELSE Num(0))
    ELSE IF b.n = 0
         THEN (IF a.n = 0 THEN NaN ELSE IF a.n > 0 THEN PosInf ELSE NegInf)
    ELSE IF IsInf(a) THEN (IF Sign(a.n) = Sign(b.n) THEN PosInf ELSE NegInf)
    ELSE Frac(a.n * b.d, a.d * b.n)

\* round(2): to two decimals, ties to even; NaN and +-inf are kept.
Round2(v) ==
    IF ~IsFinite(v) THEN v
    ELSE LET s == v.n * 100
             q == s \div v.d
             r == s - q * v.d
             k == IF 2 * r < v.d THEN q
                  ELSE IF 2 * r > v.d THEN q + 1
                  ELSE IF q % 2 = 0 THEN q ELSE q + 1
         IN  Frac(k, 100)

(***************************************************************************)
(* Strings                                                                 *)
(***************************************************************************)
Upper == {"A","B","C","D","E","F","G","H","I","J","K","L","M",
          "N","O","P","Q","R","S","T","U","V","W","X","Y","Z"}

Lower == {"a","b","c","d","e","f","g","h","i","j","k","l","m",
          "n","o","p","q","r","s","t","u","v","w","x","y","z"}

Digits == <<"0","1","2","3","4","5","6","7","8","9">>

IsDigit(c) == \E i \in 1..10 : Digits[i] = c

StringTable == {
    <<"TotalRevenue", <<"T","o","t","a","l","R","e","v","e","n","u","e">> >>,
    <<"Total Revenue", <<"T","o","t","a","l"," ","R","e","v","e","n","u","e">> >>,
    <<"GrossProfit", <<"G","r","o","s","s","P","r","o","f","i","t">> >>,
    <<"Gross Profit", <<"G","r","o","s","s"," ","P","r","o","f","i","t">> >>,
    <<"OperatingIncome", <<"O","p","e","r","a","t","i","n","g","I","n","c","o","m","e">> >>,
    <<"Operating Income", <<"O","p","e","r","a","t","i","n","g"," ","I","n","c","o","m","e">> >>,
    <<"NetIncome", <<"N","e","t","I","n","c","o","m","e">> >>,
    <<"Net Income", <<"N","e","t"," ","I","n","c","o","m","e">> >>,
    <<"FreeCashFlow", <<"F","r","e","e","C","a","s","h","F","l","o","w">> >>,
    <<"Free Cash Flow", <<"F","r","e","e"," ","C","a","s","h"," ","F","l","o","w">> >>,
    <<"CapitalExpenditure", <<"C","a","p","i","t","a","l","E","x","p","e","n","d","i","t","u","r","e">> >>,
    <<"Capital Expenditure", <<"C","a","p","i","t","a","l"," ","E","x","p","e","n","d","i","t","u","r","e">> >>,
    <<"StockBasedCompensation", <<"S","t","o","c","k","B","a","s","e","d","C","o","m","p","e","n","s","a","t","i","o","n">> >>,
    <<"Stock Based Compensation", <<"S","t","o","c","k"," ","B","a","s","e","d"," ","C","o","m","p","e","n","s","a","t","i","o","n">> >>,
    <<"CashAndCashEquivalents", <<"C","a","s","h","A","n","d","C","a","s","h","E","q","u","i","v","a","l","e","n","t","s">> >>,
    <<"Cash And Cash Equivalents", <<"C","a","s","h"," ","A","n","d"," ","C","a","s","h"," ","E","q","u","i","v","a","l","e","n","t","s">> >>,
    <<"TotalDebt", <<"T","o","t","a","l","D","e","b","t">> >>,
    <<"Total Debt", <<"T","o","t","a","l"," ","D","e","b","t">> >>,
    <<"Cash", <<"C","a","s","h">> >>,
    <<"DebtToCash", <<"D","e","b","t","T","o","C","a","s","h">> >>,
    <<"Debt To Cash", <<"D","e","b","t"," ","T","o"," ","C","a","s","h">> >>,
    <<"GrossMargin", <<"G","r","o","s","s","M","a","r","g","i","n">> >>,
    <<"Gross Margin", <<"G","r","o","s","s"," ","M","a","r","g","i","n">> >>,
    <<"OperatingMargin", <<"O","p","e","r","a","t","i","n","g","M","a","r","g","i","n">> >>,
    <<"Operating Margin", <<"O","p","e","r","a","t","i","n","g"," ","M","a","r","g","i","n">> >>,
    <<"NetMargin", <<"N","e","t","M","a","r","g","i","n">> >>,
    <<"Net Margin", <<"N","e","t"," ","M","a","r","g","i","n">> >>,
    <<"FreeCashFlowMargin", <<"F","r","e","e","C","a","s","h","F","l","o","w","M","a","r","g","i","n">> >>,
    <<"Free Cash Flow Margin", <<"F","r","e","e"," ","C","a","s","h"," ","F","l","o","w"," ","M","a","r","g","i","n">> >>,
    <<"asOfDate", <<"a","s","O","f","D","a","t","e">> >>,
    <<"periodType", <<"p","e","r","i","o","d","T","y","p","e">> >>,
    <<"marketCap", <<"m","a","r","k","e","t","C","a","p">> >>,
    <<"enterpriseValue", <<"e","n","t","e","r","p","r","i","s","e","V","a","l","u","e">> >>,
    <<"PeRatio", <<"P","e","R","a","t","i","o">> >>,
    <<"ForwardPeRatio", <<"F","o","r","w","a","r","d","P","e","R","a","t","i","o">> >>,
    <<"PsRatio", <<"P","s","R","a","t","i","o">> >>,
    <<"PbRatio", <<"P","b","R","a","t","i","o">> >>,
    <<"EnterprisesValueEBITDARatio", <<"E","n","t","e","r","p","r","i","s","e","s","V","a","l","u","e","E","B","I","T","D","A","R","a","t","i","o">> >>,
    <<"EnterprisesValueRevenueRatio", <<"E","n","t","e","r","p","r","i","s","e","s","V","a","l","u","e","R","e","v","e","n","u","e","R","a","t","i","o">> >>,
    <<"P/E", <<"P","/","E">> >>,
    <<"Forward P/E", <<"F","o","r","w","a","r","d"," ","P","/","E">> >>,
    <<"P/S", <<"P","/","S">> >>,
    <<"P/B", <<"P","/","B">> >>,
    <<"EV/EBITDA", <<"E","V","/","E","B","I","T","D","A">> >>,
    <<"EV/Revenue", <<"E","V","/","R","e","v","e","n","u","e">> >>,
    <<"Margin", <<"M","a","r","g","i","n">> >>,
    <<" Change (bps)", <<" ","C","h","a","n","g","e"," ","(","b","p","s",")">> >>,
    <<" Growth (%)", <<" ","G","r","o","w","t","h"," ","(","%",")">> >>,
    <<"TotalRevenue Change (bps)", <<"T","o","t","a","l","R","e","v","e","n","u","e"," ","C","h","a","n","g","e"," ","(","b","p","s",")">> >>,
    <<"TotalRevenue Growth (%)", <<"T","o","t","a","l","R","e","v","e","n","u","e"," ","G","r","o","w","t","h"," ","(","%",")">> >>,
    <<"NetMargin Change (bps)", <<"N","e","t","M","a","r","g","i","n"," ","C","h","a","n","g","e"," ","(","b","p","s",")">> >>,
    <<"NetMargin Growth (%)", <<"N","e","t","M","a","r","g","i","n"," ","G","r","o","w","t","h"," ","(","%",")">> >>,
    <<"Net Margin Change (bps)", <<"N","e","t"," ","M","a","r","g","i","n"," ","C","h","a","n","g","e"," ","(","b","p","s",")">> >>,
    <<"Net Margin Growth (%)", <<"N","e","t"," ","M","a","r","g","i","n"," ","G","r","o","w","t","h"," ","(","%",")">> >>,
    <<"MarginCall", <<"M","a","r","g","i","n","C","a","l","l">> >>,
    <<"MarginCall Change (bps)", <<"M","a","r","g","i","n","C","a","l","l"," ","C","h","a","n","g","e"," ","(","b","p","s",")">> >>,
    <<"MarginCall Growth (%)", <<"M","a","r","g","i","n","C","a","l","l"," ","G","r","o","w","t","h"," ","(","%",")">> >>,
    <<"Dividend", <<"D","i","v","i","d","e","n","d">> >>,
    <<"Dividend Change (bps)", <<"D","i","v","i","d","e","n","d"," ","C","h","a","n","g","e"," ","(","b","p","s",")">> >>,
    <<"Dividend Growth (%)", <<"D","i","v","i","d","e","n","d"," ","G","r","o","w","t","h"," ","(","%",")">> >>,
    <<"2022-12-31", <<"2","0","2","2","-","1","2","-","3","1">> >>,
    <<"2023-03-31", <<"2","0","2","3","-","0","3","-","3","1">> >>,
    <<"2023-06-30", <<"2","0","2","3","-","0","6","-","3","0">> >>,
    <<"2023-09-30", <<"2","0","2","3","-","0","9","-","3","0">> >>,
    <<"2023-12-31", <<"2","0","2","3","-","1","2","-","3","1">> >>}

\* The characters of a string, and the string of a tuple of characters.
Chars(s) == (CHOOSE p \in StringTable : p[1] = s)[2]

Str(cs) == (CHOOSE p \in StringTable : p[2] = cs)[1]

\* Mutant of EndsWith: the test `suffix in s`.
Contains(s, suffix) ==
    \E i \in 1..(Len(s) - Len(suffix) + 1) : SubSeq(s, i, i + Len(suffix) - 1) = suffix

\* str.endswith, on characters
EndsWith(s, suffix) ==
    /\ Len(suffix) <= Len(s)
    /\ SubSeq(s, Len(s) - Len(suffix) + 1, Len(s)) = suffix

(***************************************************************************)
(* utils.py                                                                *)
(***************************************************************************)
RECURSIVE UpperRun(_, _)
\* Length of the run of uppercase letters of s that starts at position i.
UpperRun(s, i) ==
    IF i <= Len(s) /\ s[i] \in Upper THEN 1 + UpperRun(s, i + 1) ELSE 0

\* ([A-Z]+)([A-Z][a-z]) tried at position i: the length the greedy group 1
\* ends up with (the longest that lets group 2 match), 0 when no match.
AcronymMatch(s, i) ==
    LET ks == {k \in 1..UpperRun(s, i) :
                  /\ i + k + 1 <= Len(s)
                  /\ s[i + k] \in Upper
                  /\ s[i + k + 1] \in Lower}
    IN  IF ks = {} THEN 0 ELSE CHOOSE k \in ks : \A j \in ks : j <= k

RECURSIVE SubAcronym(_, _)
\* re.sub(r'([A-Z]+)([A-Z][a-z])', r'\1 \2', s), scanning from position i:
\* leftmost matches, none overlapping.
SubAcronym(s, i) ==
    IF i > Len(s) THEN <<>>
    ELSE LET k == AcronymMatch(s, i)
         IN  IF k > 0
             THEN SubSeq(s, i, i + k - 1) \o <<" ">> \o SubSeq(s, i + k, i + k + 1)
                  \o SubAcronym(s, i + k + 2)
             ELSE <<s[i]>> \o SubAcronym(s, i + 1)

RECURSIVE SubBoundaryAny(_, _)
\* Mutant of SubBoundary: the pattern ([A-Za-z\d])([A-Z]), which also splits
\* inside a run of uppercase letters.
SubBoundaryAny(s, i) ==
    IF i > Len(s) THEN <<>>
    ELSE IF /\ i + 1 <= Len(s)
            /\ (s[i] \in Lower \/ s[i] \in Upper \/ IsDigit(s[i]))
            /\ s[i + 1] \in Upper
         THEN <<s[i], " ", s[i + 1]>> \o SubBoundaryAny(s, i + 2)
         ELSE <<s[i]>> \o SubBoundaryAny(s, i + 1)

RECURSIVE SubBoundary(_, _)
\* re.sub(r'([a-z\d])([A-Z])', r'\1 \2', s), scanning from position i.
SubBoundary(s, i) ==
    IF i > Len(s) THEN <<>>
    ELSE IF /\ i + 1 <= Len(s)
            /\ (s[i] \in Lower \/ IsDigit(s[i]))
            /\ s[i + 1] \in Upper
         THEN <<s[i], " ", s[i + 1]>> \o SubBoundary(s, i + 2)
         ELSE <<s[i]>> \o SubBoundary(s, i + 1)

\* The two substitutions of split_camel_case, on characters.
SplitChars(cs) == SubBoundary(SubAcronym(cs, 1), 1)

split_camel_case(name) == Str(SplitChars(Chars(name)))

(***************************************************************************)
(* pandas tables.  A DataFrame is [index, columns, data]: the row labels,  *)
(* the column names, and one tuple of cells per row, aligned with columns. *)
(* An exception is the record [error |-> its type].                        *)
(***************************************************************************)
KeyError == [error |-> "KeyError"]

IsError(r) == "error" \in DOMAIN r

Frame(index, columns, data) == [index |-> index, columns |-> columns, data |-> data]

NRows(t) == Len(t.index)

HasCol(t, name) == \E j \in 1..Len(t.columns) : t.columns[j] = name

ColPos(t, name) == CHOOSE j \in 1..Len(t.columns) : t.columns[j] = name

\* df[name] as the tuple of its cells, in row order.
Column(t, name) == [i \in 1..NRows(t) |-> t.data[i][ColPos(t, name)]]

\* Mutant of Select: df.reindex(columns=keys), which fills an absent column
\* with nulls instead of raising.
SelectReindex(t, keys) ==
    Frame(t.index, keys,
          [i \in 1..NRows(t) |->
              [j \in 1..Len(keys) |->
                  IF HasCol(t, keys[j]) THEN t.data[i][ColPos(t, keys[j])] ELSE NaN]])

\* df[keys]: KeyError when a key is no column of df.
Select(t, keys) ==
    IF \E j \in 1..Len(keys) : ~HasCol(t, keys[j]) THEN KeyError
    ELSE Frame(t.index, keys,
               [i \in 1..NRows(t) |-> [j \in 1..Len(keys) |-> t.data[i][ColPos(t, keys[j])]]])

\* The rows of t at the positions pos, in that order.
TakeRows(t, pos) ==
    Frame([k \in 1..Len(pos) |-> t.index[pos[k]]], t.columns,
          [k \in 1..Len(pos) |-> t.data[pos[k]]])

Positions(t) == [i \in 1..NRows(t) |-> i]

\* DataFrame.dropna(): drop the rows that hold a null in any column.
DropNa(t) ==
    TakeRows(t, SelectSeq(Positions(t),
        LAMBDA i : \A j \in 1..Len(t.columns) : ~IsNull(t.data[i][j])))

\* Mutant of DropNaAll: dropna() with the default how='any'.
DropNaAny(t) ==
    TakeRows(t, SelectSeq(Positions(t),
        LAMBDA i : \A j \in 1..Len(t.columns) : ~IsNull(t.data[i][j])))

\* DataFrame.dropna(how='all'): drop the rows whose every cell is null.
DropNaAll(t) ==
    TakeRows(t, SelectSeq(Positions(t),
        LAMBDA i : \E j \in 1..Len(t.columns) : ~IsNull(t.data[i][j])))

\* df[name] = vals: replaces the column when it exists, appends it otherwise.
SetColumn(t, name, vals) ==
    IF HasCol(t, name)
    THEN Frame(t.index, t.columns,
               [i \in 1..NRows(t) |->
                   [j \in 1..Len(t.columns) |->
                       IF j = ColPos(t, name) THEN vals[i] ELSE t.data[i][j]]])
    ELSE Frame(t.index, Append(t.columns, name),
               [i \in 1..NRows(t) |-> Append(t.data[i], vals[i])])

\* DataFrame.rename(columns=...) for one column; absent names are ignored.
Rename(t, old, new) ==
    Frame(t.index,
          [j \in 1..Len(t.columns) |-> IF t.columns[j] = old THEN new ELSE t.columns[j]],
          t.data)

\* DataFrame.round(2)
Round(t) ==
    Frame(t.index, t.columns,
          [i \in 1..NRows(t) |-> [j \in 1..Len(t.columns) |-> Round2(t.data[i][j])]])

Labels(t) == {t.index[i] : i \in 1..NRows(t)}

RowOf(t, label) == CHOOSE i \in 1..NRows(t) : t.index[i] = label

RECURSIVE SortedLabels(_)
\* The labels of the set S in ascending order.
SortedLabels(S) ==
    IF S = {} THEN <<>>
    ELSE LET m == CHOOSE x \in S : \A y \in S : x <= y
         IN  <<m>> \o SortedLabels(S \ {m})

\* The labels of a followed by those of b that a lacks.
UnionIndex(a, b) == a \o SelectSeq(b, LAMBDA x : \A i \in 1..Len(a) : a[i] # x)

\* Mutant of Concat2: pd.concat([a, b], axis=1, join='inner').
Concat2Inner(a, b) ==
    LET idx == SelectSeq(a.index, LAMBDA x : x \in Labels(b))
    IN  Frame(idx, a.columns \o b.columns,
              [k \in 1..Len(idx) |-> a.data[RowOf(a, idx[k])] \o b.data[RowOf(b, idx[k])]])

\* pd.concat([a, b], axis=1): join='outer' is the default, so the index is
\* the union of the two and a row one side lacks holds NaN in its columns.
Concat2(a, b) ==
    LET idx == UnionIndex(a.index, b.index)
        cells(t, label) ==
            IF label \in Labels(t) THEN t.data[RowOf(t, label)]
            ELSE [j \in 1..Len(t.columns) |-> NaN]
    IN  Frame(idx, a.columns \o b.columns,
              [k \in 1..Len(idx) |-> cells(a, idx[k]) \o cells(b, idx[k])])

Concat(a, b, c) == Concat2(Concat2(a, b), c)

\* DataFrame.sort_index(): rows in ascending label order (labels are unique).
SortIndex(t) ==
    LET idx == SortedLabels(Labels(t))
    IN  TakeRows(t, [k \in 1..Len(idx) |-> RowOf(t, idx[k])])

\* Mutant of SeriesNeg: abs() in place of the sign flip.
SeriesAbs(a) == [i \in 1..Len(a) |-> [n |-> Abs(a[i].n), d |-> a[i].d]]

\* a / b, a - b, -a and a * k on Series of equal index, cell by cell.
SeriesDiv(a, b) == [i \in 1..Len(a) |-> Div(a[i], b[i])]

SeriesSub(a, b) == [i \in 1..Len(a) |-> Sub(a[i], b[i])]

SeriesNeg(a) == [i \in 1..Len(a) |-> Neg(a[i])]

SeriesScale(a, k) == [i \in 1..Len(a) |-> Mul(a[i], Num(k))]

(***************************************************************************)
(* fundamentals.py                                                         *)
(***************************************************************************)
extract_income_stmt_metrics(t) ==
    LET keys == <<"TotalRevenue", "GrossProfit", "OperatingIncome", "NetIncome">>
        sel  == Select(t, keys)
    IN  IF IsError(sel) THEN sel ELSE DropNa(sel)

extract_cashflow_stmt_metrics(t) ==
    LET keys == <<"FreeCashFlow", "CapitalExpenditure", "StockBasedCompensation">>
        sel  == Select(t, keys)
    IN  IF IsError(sel) THEN sel
        ELSE LET out == DropNa(sel)
                 neg == SetColumn(out, "CapitalExpenditure",
                                  SeriesNeg(Column(out, "CapitalExpenditure")))
             IN  DropNa(neg)

extract_balance_sheet_metrics(t) ==
    LET keys == <<"CashAndCashEquivalents", "TotalDebt">>
        sel  == Select(t, keys)
    IN  IF IsError(sel) THEN sel
        ELSE LET out == Rename(DropNa(sel), "CashAndCashEquivalents", "Cash")
                 lev == SetColumn(out, "DebtToCash",
                                  SeriesDiv(Column(out, "TotalDebt"), Column(out, "Cash")))
             IN  DropNa(lev)

\* The margin columns build_fundamentals adds to the stitched table.
AddMargins(t) ==
    LET revenue == Column(t, "TotalRevenue")
        t1 == SetColumn(t,  "GrossMargin",     SeriesDiv(Column(t, "GrossProfit"), revenue))
        t2 == SetColumn(t1, "OperatingMargin", SeriesDiv(Column(t, "OperatingIncome"), revenue))
        t3 == SetColumn(t2, "NetMargin",       SeriesDiv(Column(t, "NetIncome"), revenue))
    IN  SetColumn(t3, "FreeCashFlowMargin", SeriesDiv(Column(t, "FreeCashFlow"), revenue))

\* df.columns = [split_camel_case(col) for col in df.columns]
Humanize(t) ==
    Frame(t.index, [j \in 1..Len(t.columns) |-> split_camel_case(t.columns[j])], t.data)

build_fundamentals(inc_raw, cf_raw, bs_raw) ==
    LET inc == extract_income_stmt_metrics(inc_raw)
        cf  == extract_cashflow_stmt_metrics(cf_raw)
        bs  == extract_balance_sheet_metrics(bs_raw)
    IN  IF IsError(inc) THEN inc
        ELSE IF IsError(cf) THEN cf
        ELSE IF IsError(bs) THEN bs
        ELSE SortIndex(Humanize(AddMargins(Concat(inc, cf, bs))))

\* Stock.fundamentals / Stock.quarterly_fundamentals on the fetched tables:
\* build_fundamentals(...).dropna()
fundamentals(inc_raw, cf_raw, bs_raw) ==
    LET built == build_fundamentals(inc_raw, cf_raw, bs_raw)
    IN  IF IsError(built) THEN built ELSE DropNa(built)

(***************************************************************************)
(* growth.py                                                               *)
(***************************************************************************)
ZeroDivisionError == [error |-> "ZeroDivisionError"]

RECURSIVE Pow(_, _)
Pow(b, n) == IF n = 0 THEN 1 ELSE b * Pow(b, n - 1)

\* The natural r with r^n = x, or -1 when x is no perfect n-th power (n >= 1).
NthRoot(x, n) ==
    IF \E r \in 0..x : Pow(r, n) = x THEN CHOOSE r \in 0..x : Pow(r, n) = x ELSE -1

\* Python's q ** (1.0 / n) for a float q and a nonzero integer n, exactly:
\* a float when the result is rational, the surd itself when it is not, a
\* complex number for a negative base under a fractional exponent, and
\* ZeroDivisionError for 0.0 raised to a negative power.
FloatPow(q, n) ==
    IF q.n = 0
    THEN (IF n < 0 THEN ZeroDivisionError ELSE [type |-> "float", v |-> Num(0)])
    ELSE IF q.n < 0 /\ n \notin {1, -1} THEN [type |-> "complex"]
    ELSE LET b  == IF n < 0 THEN Frac(q.d, q.n) ELSE q
             m  == Abs(n)
             rn == NthRoot(Abs(b.n), m)
             rd == NthRoot(b.d, m)
         IN  IF rn >= 0 /\ rd >= 0
             THEN [type |-> "float", v |-> Frac(Sign(b.n) * rn, rd)]
             ELSE [type |-> "surd", base |-> b, root |-> m]

\* cagr on Python numbers: the operators are evaluated left to right, and a
\* zero divisor raises.
cagr(start, end, nper) ==
    IF start = 0 THEN ZeroDivisionError
    ELSE IF nper = 0 THEN ZeroDivisionError
    ELSE LET p == FloatPow(Frac(end, start), nper)
         IN  IF IsError(p) THEN p
             ELSE IF p.type = "float" THEN [type |-> "float", v |-> Sub(p.v, Num(1))]
             ELSE IF p.type = "surd"
                  THEN [type |-> "surd", base |-> p.base, root |-> p.root, minus |-> 1]
             ELSE p

\* Series.shift(p): the cell p rows earlier, NaN where there is none.
Shift(s, p) == [i \in 1..Len(s) |-> IF i - p \in 1..Len(s) THEN s[i - p] ELSE NaN]

RECURSIVE FFillAt(_, _)
\* The last non-null cell of s at or before row i, NaN when there is none.
FFillAt(s, i) ==
    IF i < 1 THEN NaN
    ELSE IF ~IsNull(s[i]) THEN s[i]
    ELSE FFillAt(s, i - 1)

\* Series.ffill()
FFill(s) == [i \in 1..Len(s) |-> FFillAt(s, i)]

\* Series.pct_change(p): data / data.shift(p) - 1, where data is the series
\* forward-filled when pandas' default fill_method is 'pad'.
PctChange(s, p, fill) ==
    LET data == IF fill = "pad" THEN FFill(s) ELSE s
        quot == SeriesDiv(data, Shift(data, p))
    IN  [i \in 1..Len(s) |-> Sub(quot[i], Num(1))]

\* The column compute_growth derives from column col of t, as <<name, cells>>.
GrowthColumn(t, col, p, fill) ==
    IF EndsWith(Chars(col), Chars("Margin"))
    THEN <<Str(Chars(col) \o Chars(" Change (bps)")),
           SeriesScale(SeriesSub(Column(t, col), Shift(Column(t, col), p)), 100)>>
    ELSE <<Str(Chars(col) \o Chars(" Growth (%)")),
           SeriesScale(PctChange(Column(t, col), p, fill), 100)>>

RECURSIVE GrowthLoop(_, _, _, _, _)
\* The for loop of compute_growth from column j on, growth being the table so far.
GrowthLoop(t, p, fill, j, growth) ==
    IF j > Len(t.columns) THEN growth
    ELSE LET g == GrowthColumn(t, t.columns[j], p, fill)
         IN  GrowthLoop(t, p, fill, j + 1, SetColumn(growth, g[1], g[2]))

\* The growth table before rounding and the all-null row drop.
GrowthTable(t, p, fill) ==
    GrowthLoop(t, p, fill, 1, Frame(t.index, <<>>, [i \in 1..NRows(t) |-> <<>>]))

compute_growth(t, p, fill) == DropNaAll(Round(GrowthTable(t, p, fill)))

(***************************************************************************)
(* valuation.py                                                            *)
(***************************************************************************)
\* The decimal digits of n, zero-padded to width w.
RECURSIVE ZeroPad(_, _)
ZeroPad(n, w) == IF w = 0 THEN <<>> ELSE ZeroPad(n \div 10, w - 1) \o <<Digits[(n % 10) + 1]>>

\* Timestamp.strftime('%Y-%m-%d'): the time of day is dropped.
strftime(ts) ==
    Str(ZeroPad(ts.year, 4) \o <<"-">> \o ZeroPad(ts.month, 2) \o <<"-">> \o ZeroPad(ts.day, 2))

\* DataFrame.drop(columns=[c for c in names if c in df.columns])
DropColumns(t, names) ==
    LET keep == SelectSeq([j \in 1..Len(t.columns) |-> j],
                          LAMBDA j : \A k \in 1..Len(names) : names[k] # t.columns[j])
    IN  Frame(t.index, [k \in 1..Len(keep) |-> t.columns[keep[k]]],
              [i \in 1..NRows(t) |-> [k \in 1..Len(keep) |-> t.data[i][keep[k]]]])

RECURSIVE RenameAll(_, _, _)
\* DataFrame.rename(columns=mapping), mapping given as <<old, new>> pairs.
RenameAll(t, mapping, k) ==
    IF k > Len(mapping) THEN t
    ELSE RenameAll(Rename(t, mapping[k][1], mapping[k][2]), mapping, k + 1)

build_valuation(t) ==
    IF ~HasCol(t, "asOfDate") THEN KeyError
    ELSE LET dates   == Column(t, "asOfDate")
             indexed == Frame([i \in 1..NRows(t) |-> strftime(dates[i])], t.columns, t.data)
             dropped == DropColumns(indexed, <<"asOfDate", "periodType", "marketCap", "enterpriseValue">>)
             mapping == << <<"PeRatio", "P/E">>, <<"ForwardPeRatio", "Forward P/E">>,
                           <<"PsRatio", "P/S">>, <<"PbRatio", "P/B">>,
                           <<"EnterprisesValueEBITDARatio", "EV/EBITDA">>,
                           <<"EnterprisesValueRevenueRatio", "EV/Revenue">> >>
             renamed == RenameAll(dropped, mapping, 1)
             keys    == <<"P/E", "Forward P/E", "P/S", "P/B", "EV/EBITDA", "EV/Revenue">>
             sel     == Select(renamed, keys)
         IN  IF IsError(sel) THEN sel ELSE DropNa(Round(sel))

(***************************************************************************)
(* fetch.py and core.py: the Stock object.  What the provider returns is   *)
(* opaque: a fetched value is identified by the call that produced it, a   *)
(* derived value by the values it was computed from.                       *)
(***************************************************************************)
None == "None"

\* DataFetcher.fetch_price_history raises ValueError when neither start nor
\* period is given, before it reaches the provider.
fetch_price_history_raises(params) == params.start = None /\ params.period = None

TypeError == [error |-> "TypeError"]

ValueError == [error |-> "ValueError"]

\* refresh_history's keyword defaults.
NoKwargs == [period |-> None, start |-> None, end |-> None, interval |-> None]

\* The updates refresh_history's body makes to _history_params, in the
\* order of its three tests.
UpdateParams(params, kw) ==
    LET p1 == IF kw.period # None
              THEN [params EXCEPT !.period = kw.period, !.start = None, !.end = None]
              ELSE params
        p2 == IF kw.start # None
              THEN [p1 EXCEPT !.start = kw.start, !.end = kw.end, !.period = None]
              ELSE p1
    IN  IF kw.interval # None THEN [p2 EXCEPT !.interval = kw.interval] ELSE p2

\* The DataFetcher call each leaf accessor makes.
FetchOf(a) ==
    CASE a = "price_history"           -> [method |-> "fetch_price_history", frequency |-> "-", trailing |-> FALSE]
      [] a = "valuation"               -> [method |-> "get_valuation",       frequency |-> "-", trailing |-> FALSE]
      [] a = "dividend_history"        -> [method |-> "get_dividends",       frequency |-> "-", trailing |-> FALSE]
      [] a = "income_stmt"             -> [method |-> "get_income_stmt",     frequency |-> "a", trailing |-> FALSE]
      [] a = "quarterly_income_stmt"   -> [method |-> "get_income_stmt",     frequency |-> "q", trailing |-> FALSE]
      [] a = "ttm_income_stmt"         -> [method |-> "get_income_stmt",     frequency |-> "q", trailing |-> TRUE]
      [] a = "cashflow_stmt"           -> [method |-> "get_cashflow_stmt",   frequency |-> "a", trailing |-> FALSE]
      [] a = "quarterly_cashflow_stmt" -> [method |-> "get_cashflow_stmt",   frequency |-> "q", trailing |-> FALSE]
      [] a = "ttm_cashflow_stmt"       -> [method |-> "get_cashflow_stmt",   frequency |-> "q", trailing |-> TRUE]
      [] a = "balance_sheet"           -> [method |-> "get_balance_sheet",   frequency |-> "a", trailing |-> FALSE]
      [] a = "quarterly_balance_sheet" -> [method |-> "get_balance_sheet",   frequency |-> "q", trailing |-> FALSE]
      [] a = "ttm_balance_sheet"       -> [method |-> "get_balance_sheet",   frequency |-> "q", trailing |-> FALSE]
      [] a = "key_stats"               -> [method |-> "get_key_stats",       frequency |-> "-", trailing |-> FALSE]
      [] a = "summary_detail"          -> [method |-> "get_summary_detail",  frequency |-> "-", trailing |-> FALSE]
      [] a = "price_data"              -> [method |-> "get_price",           frequency |-> "-", trailing |-> FALSE]
      [] a = "financial_data"          -> [method |-> "get_financial_data",  frequency |-> "-", trailing |-> FALSE]

Fetching == {"price_history", "valuation", "dividend_history",
             "income_stmt", "quarterly_income_stmt", "ttm_income_stmt",
             "cashflow_stmt", "quarterly_cashflow_stmt", "ttm_cashflow_stmt",
             "balance_sheet", "quarterly_balance_sheet", "ttm_balance_sheet",
             "key_stats", "summary_detail", "price_data", "financial_data"}

\* The accessors each derived accessor reads, in the order it reads them.
DepsOf(a) ==
    CASE a = "ttm_valuation"          -> <<"valuation">>
      [] a = "growth"                 -> <<"fundamentals">>
      [] a = "ttm_growth"             -> <<"quarterly_fundamentals">>
      [] a = "fundamentals"           -> <<"income_stmt", "cashflow_stmt", "balance_sheet">>
      [] a = "quarterly_fundamentals" -> <<"quarterly_income_stmt", "quarterly_cashflow_stmt", "quarterly_balance_sheet">>
      [] a = "ttm_fundamentals"       -> <<"ttm_income_stmt", "ttm_cashflow_stmt", "ttm_balance_sheet">>
      [] a = "dividend_yield_history" -> <<"price_history">>
      [] a = "dividend_growth"        -> <<"dividend_history">>

Derived == {"ttm_valuation", "growth", "ttm_growth", "fundamentals", "quarterly_fundamentals",
            "ttm_fundamentals", "dividend_yield_history", "dividend_growth"}

Accessors == Fetching \cup Derived \cup {"refresh_history"}

\* The state a property read works on: the instance's __dict__, the fetcher
\* calls so far, and whether an exception is propagating.
Ctx(c, k, r) == [cache |-> c, calls |-> k, raised |-> r]

RECURSIVE Get(_, _, _), GetAll(_, _, _, _)
\* functools.cached_property: the cached value when there is one; otherwise
\* the body runs and, unless it raises, its value is stored in __dict__.
Get(st, a, params) ==
    IF st.raised \/ a \in DOMAIN st.cache THEN st
    ELSE IF a \in Fetching
    THEN LET k == Append(st.calls, FetchOf(a))
         IN  IF a = "price_history"
             THEN (IF fetch_price_history_raises(params)
                   THEN Ctx(st.cache, k, TRUE)
                   ELSE Ctx(st.cache @@ (a :> [call |-> Len(k), params |-> params]), k, FALSE))
             ELSE Ctx(st.cache @@ (a :> [call |-> Len(k)]), k, FALSE)
    ELSE IF a \in Derived
    THEN LET s1 == GetAll(st, DepsOf(a), 1, params)
         IN  IF s1.raised THEN s1
             ELSE Ctx(s1.cache @@ (a :> [of |-> [i \in 1..Len(DepsOf(a)) |-> s1.cache[DepsOf(a)[i]]]]),
                      s1.calls, FALSE)
    ELSE \* refresh_history, read as a property: every keyword is its default
         \* None, so no parameter changes; price_history is evicted and re-read.
         LET evicted == [x \in DOMAIN st.cache \ {"price_history"} |-> st.cache[x]]
             s1 == Get(Ctx(evicted, st.calls, FALSE), "price_history",
                       UpdateParams(params, NoKwargs))
         IN  IF s1.raised THEN s1
             ELSE Ctx(s1.cache @@ (a :> s1.cache["price_history"]), s1.calls, FALSE)

GetAll(st, deps, i, params) ==
    IF i > Len(deps) THEN st ELSE GetAll(Get(st, deps[i], params), deps, i + 1, params)

(***************************************************************************)
(* Bounds and input domains                                                *)
(***************************************************************************)
MaxDates == 2

MaxRows == 3

MaxPeriods == 2

MaxValRows == 3

MaxReads == 3

MaxLen == 5

\* The reporting dates of the statement tables, as years.
Dates == 2021..(2020 + MaxDates)

EmptyFrame == Frame(<<>>, <<>>, <<>>)

\* Every table with the given columns whose index is an ascending set of
\* Dates and whose rows are drawn from rowSet.
Tables(columns, rowSet) ==
    UNION {{Frame(SortedLabels(S), columns, [k \in 1..Cardinality(S) |-> f[SortedLabels(S)[k]]]) :
               f \in [S -> rowSet]} : S \in SUBSET Dates}

IncomeColumns == <<"TotalRevenue", "GrossProfit", "OperatingIncome", "NetIncome">>

CashflowColumns == <<"FreeCashFlow", "CapitalExpenditure", "StockBasedCompensation">>

BalanceColumns == <<"CashAndCashEquivalents", "TotalDebt">>

IncomeRows == {<<Num(1000), Num(400), Num(200), Num(100)>>, <<Num(0), Num(400), Num(200), Num(100)>>,
               <<Num(0), Num(0), Num(0), Num(0)>>, <<Num(1000), Num(400), Num(200), NaN>>}

CashflowRows == {<<Num(300), Num(-500), Num(50)>>, <<Num(300), NaN, Num(50)>>}

BalanceRows == {<<Num(200), Num(100)>>, <<Num(0), Num(0)>>}

DefaultParams == [period |-> "5y", start |-> None, end |-> None, interval |-> "1d"]

NoInputs ==
    /\ income_stmt = EmptyFrame /\ cashflow_stmt = EmptyFrame /\ balance_sheet = EmptyFrame
    /\ raw_valuation = EmptyFrame /\ df = EmptyFrame /\ periods = 1
    /\ fill_method = "pad" /\ cagr_args = <<1, 1, 1>> /\ identifier = <<>>

NoCall == called = "none" /\ result = None

NoStock ==
    /\ cache = <<>> /\ calls = <<>> /\ history_params = DefaultParams
    /\ kwargs = NoKwargs /\ reads = 0

\* The call of fn returns value (a table, a number or the exception raised).
Return(fn, value) ==
    /\ called' = fn
    /\ result' = value
    /\ UNCHANGED <<inputVars, stockVars>>

(***************************************************************************)
(* The fundamentals builder on aligned statement tables                    *)
(***************************************************************************)
InitFundamentals ==
    /\ income_stmt \in Tables(IncomeColumns, IncomeRows)
    /\ cashflow_stmt \in Tables(CashflowColumns, CashflowRows)
    /\ balance_sheet \in Tables(BalanceColumns, BalanceRows)
    /\ raw_valuation = EmptyFrame /\ df = EmptyFrame /\ periods = 1
    /\ fill_method = "pad" /\ cagr_args = <<1, 1, 1>>
    /\ identifier = <<>>
    /\ NoCall /\ NoStock

CallBuildFundamentals ==
    /\ called = "none"
    /\ Return("build_fundamentals", build_fundamentals(income_stmt, cashflow_stmt, balance_sheet))

CallFundamentals ==
    /\ called = "none"
    /\ Return("fundamentals", fundamentals(income_stmt, cashflow_stmt, balance_sheet))

NextFundamentals == CallBuildFundamentals \/ CallFundamentals

SpecFundamentals == InitFundamentals /\ [][NextFundamentals]_vars

(***************************************************************************)
(* The cash-flow extractor on its own                                      *)
(***************************************************************************)
CashflowDetailRows ==
    {<<fcf, capex, sbc>> : fcf \in {NaN, Num(300)},
                           capex \in {NaN, Num(-500), Num(0), Num(200)},
                           sbc \in {NaN, Num(50)}}

InitExtract ==
    /\ cashflow_stmt \in Tables(CashflowColumns, CashflowDetailRows)
    /\ income_stmt = EmptyFrame /\ balance_sheet = EmptyFrame
    /\ raw_valuation = EmptyFrame /\ df = EmptyFrame /\ periods = 1
    /\ fill_method = "pad" /\ cagr_args = <<1, 1, 1>>
    /\ identifier = <<>>
    /\ NoCall /\ NoStock

CallExtractCashflow ==
    /\ called = "none"
    /\ Return("extract_cashflow_stmt_metrics", extract_cashflow_stmt_metrics(cashflow_stmt))

NextExtract == CallExtractCashflow

SpecExtract == InitExtract /\ [][NextExtract]_vars

(***************************************************************************)
(* Input tables that lack a column                                         *)
(***************************************************************************)
\* s without its k-th element.
Without(s, k) == SubSeq(s, 1, k - 1) \o SubSeq(s, k + 1, Len(s))

\* The tables of one row dated 2021 that hold the given columns, or all
\* but one of them, with cells from the given row or a null in the first one.
LackingTables(columns, row) ==
    LET whole(r) == Frame(<<2021>>, columns, <<r>>)
        nulled   == [row EXCEPT ![1] = NaN]
    IN  {whole(row), whole(nulled)}
        \cup {Frame(<<2021>>, Without(columns, k), <<Without(r, k)>>) :
                 k \in 1..Len(columns), r \in {row, nulled}}

Timestamp(y, m, d, h) == [year |-> y, month |-> m, day |-> d, hour |-> h]

ValuationColumns == <<"asOfDate", "periodType", "EnterprisesValueEBITDARatio",
                      "EnterprisesValueRevenueRatio", "ForwardPeRatio", "PbRatio",
                      "PeRatio", "PsRatio">>

\* A valuation_measures row, in the order of ValuationColumns.
ValuationRow(ts, pe) ==
    <<ts, "3M", Frac(1234, 100), Frac(4567, 1000), Num(20), Frac(7, 2), pe, Frac(5, 8)>>

\* Valuation tables of one row lacking at most one of the columns after the
\* first (asOfDate), P/E being a number or null.
LackingValuationTables ==
    LET ts == Timestamp(2023, 3, 31, 0)
    IN  {Frame(<<0>>, ValuationColumns, <<ValuationRow(ts, pe)>>) : pe \in {Num(25), NaN}}
        \cup {Frame(<<0>>, Without(ValuationColumns, k), <<Without(ValuationRow(ts, pe), k)>>) :
                 k \in 1..Len(ValuationColumns), pe \in {Num(25), NaN}}

InitSchema ==
    /\ \/ /\ income_stmt \in LackingTables(IncomeColumns, <<Num(1000), Num(400), Num(200), Num(100)>>)
          /\ cashflow_stmt \in LackingTables(CashflowColumns, <<Num(300), Num(-500), Num(50)>>)
          /\ balance_sheet \in LackingTables(BalanceColumns, <<Num(200), Num(100)>>)
          /\ raw_valuation = EmptyFrame
       \/ /\ income_stmt = EmptyFrame /\ cashflow_stmt = EmptyFrame /\ balance_sheet = EmptyFrame
          /\ raw_valuation \in LackingValuationTables
    /\ df = EmptyFrame /\ periods = 1 /\ fill_method = "pad" /\ cagr_args = <<1, 1, 1>>
    /\ identifier = <<>>
    /\ NoCall /\ NoStock

CallExtractIncome ==
    /\ called = "none"
    /\ Return("extract_income_stmt_metrics", extract_income_stmt_metrics(income_stmt))

CallExtractBalance ==
    /\ called = "none"
    /\ Return("extract_balance_sheet_metrics", extract_balance_sheet_metrics(balance_sheet))

CallBuildValuation ==
    /\ called = "none"
    /\ Return("build_valuation", build_valuation(raw_valuation))

NextSchema ==
    \/ CallExtractIncome
    \/ CallExtractCashflow
    \/ CallExtractBalance
    \/ CallBuildFundamentals
    \/ CallBuildValuation

SpecSchema == InitSchema /\ [][NextSchema]_vars

(***************************************************************************)
(* The valuation builder on raw tables in any row order                    *)
(***************************************************************************)
AsOfDates == {Timestamp(2022, 12, 31, 0), Timestamp(2023, 3, 31, 0),
              Timestamp(2023, 3, 31, 16), Timestamp(2023, 6, 30, 0)}

ValuationRows == {ValuationRow(ts, pe) : ts \in AsOfDates, pe \in {Num(25), NaN}}

\* yahooquery's valuation_measures frame carries a positional index.
InitValuation ==
    /\ \E n \in 0..MaxValRows :
          \E rows \in [1..n -> ValuationRows] :
             raw_valuation = Frame([i \in 1..n |-> i - 1], ValuationColumns, rows)
    /\ income_stmt = EmptyFrame /\ cashflow_stmt = EmptyFrame /\ balance_sheet = EmptyFrame
    /\ df = EmptyFrame /\ periods = 1 /\ fill_method = "pad" /\ cagr_args = <<1, 1, 1>>
    /\ identifier = <<>>
    /\ NoCall /\ NoStock

NextValuation == CallBuildValuation

SpecValuation == InitValuation /\ [][NextValuation]_vars

(***************************************************************************)
(* The growth engine                                                       *)
(***************************************************************************)
GrowthColumnLists == {<<>>, <<"TotalRevenue">>, <<"NetMargin">>, <<"MarginCall">>,
                      <<"TotalRevenue", "Net Margin">>}

\* The cells a column may hold: fractions for a margin, amounts otherwise.
CellsOf(col) ==
    IF col \in {"NetMargin", "Net Margin"}
    THEN {NaN, Frac(30, 100), Frac(33, 100)}
    ELSE {NaN, Num(0), Num(100), Num(110)}

RowsOf(columns) ==
    {r \in [1..Len(columns) -> UNION {CellsOf(columns[j]) : j \in 1..Len(columns)}] :
        \A j \in 1..Len(columns) : r[j] \in CellsOf(columns[j])}

InitGrowth ==
    /\ \E columns \in GrowthColumnLists :
          \E n \in 0..MaxRows :
             \E rows \in [1..n -> RowsOf(columns)] :
                df = Frame([i \in 1..n |-> 2020 + i], columns, rows)
    /\ periods \in 1..MaxPeriods
    /\ fill_method \in {"pad", "none"}
    /\ income_stmt = EmptyFrame /\ cashflow_stmt = EmptyFrame /\ balance_sheet = EmptyFrame
    /\ raw_valuation = EmptyFrame /\ cagr_args = <<1, 1, 1>>
    /\ identifier = <<>>
    /\ NoCall /\ NoStock

CallComputeGrowth ==
    /\ called = "none"
    /\ Return("compute_growth", compute_growth(df, periods, fill_method))

NextGrowth == CallComputeGrowth

SpecGrowth == InitGrowth /\ [][NextGrowth]_vars

(***************************************************************************)
(* cagr                                                                    *)
(***************************************************************************)
CagrValues == {-100, 0, 100, 200, 400, 800}

CagrPeriods == {-1, 0, 1, 2, 3, 5}

InitCagr ==
    /\ cagr_args \in CagrValues \X CagrValues \X CagrPeriods
    /\ income_stmt = EmptyFrame /\ cashflow_stmt = EmptyFrame /\ balance_sheet = EmptyFrame
    /\ raw_valuation = EmptyFrame /\ df = EmptyFrame /\ periods = 1 /\ fill_method = "pad"
    /\ identifier = <<>>
    /\ NoCall /\ NoStock

CallCagr ==
    /\ called = "none"
    /\ Return("cagr", cagr(cagr_args[1], cagr_args[2], cagr_args[3]))

NextCagr == CallCagr

SpecCagr == InitCagr /\ [][NextCagr]_vars

(***************************************************************************)
(* split_camel_case on identifiers                                         *)
(***************************************************************************)
\* The regular expressions tell characters apart by class only: two letters
\* of each case and a digit stand for the identifier alphabet.
IdentChars == {"A", "B", "a", "b", "1"}

Identifiers == UNION {[1..n -> IdentChars] : n \in 0..MaxLen}

InitSplit ==
    /\ identifier \in Identifiers
    /\ income_stmt = EmptyFrame /\ cashflow_stmt = EmptyFrame /\ balance_sheet = EmptyFrame
    /\ raw_valuation = EmptyFrame /\ df = EmptyFrame /\ periods = 1 /\ fill_method = "pad"
    /\ cagr_args = <<1, 1, 1>>
    /\ NoCall /\ NoStock

CallSplitCamelCase ==
    /\ called = "none"
    /\ Return("split_camel_case", SplitChars(identifier))

NextSplit == CallSplitCamelCase

SpecSplit == InitSplit /\ [][NextSplit]_vars

(***************************************************************************)
(* One Stock instance and the reads made on it                             *)
(***************************************************************************)
\* Stock.__init__: the history parameters are the constructor's arguments.
Init ==
    /\ cache = <<>>
    /\ calls = <<>>
    /\ history_params \in [period : {None, "5y"}, start : {None, "2020-01-01"},
                           end : {None}, interval : {"1d"}]
    /\ kwargs = NoKwargs
    /\ reads = 0
    /\ NoInputs
    /\ called = "none" /\ result = [value |-> None]

\* _history_params after the read of accessor a: only refresh_history's body
\* writes it, and the body runs when no value of refresh_history is cached.
ParamsAfter(a) ==
    IF a = "refresh_history" /\ a \notin DOMAIN cache
    THEN UpdateParams(history_params, NoKwargs)
    ELSE history_params

Read(a) ==
    /\ LET st == Get(Ctx(cache, calls, FALSE), a, history_params)
       IN  cache' = st.cache /\ calls' = st.calls
    /\ history_params' = ParamsAfter(a)
    /\ reads' = reads + 1
    /\ UNCHANGED <<kwargs, inputVars, callVars>>

\* Reading any cached property but refresh_history.
ReadAccessor ==
    /\ reads < MaxReads
    /\ \E a \in Fetching \cup Derived : Read(a)

\* Reading Stock.refresh_history, which is declared a cached_property.
ReadRefreshHistory ==
    /\ reads < MaxReads
    /\ Read("refresh_history")

\* The keyword arguments a caller passes to refresh_history.
RefreshKwargs == [period : {None, "1y"}, start : {None, "2021-01-01"},
                  end : {None}, interval : {None, "1h"}]

\* The call stock.refresh_history(**kw).  refresh_history is a
\* cached_property: the attribute lookup runs the read (the body with every
\* keyword at its default, or the cached table), and the call is then applied
\* to the value read, a DataFrame, which is not callable.
CallRefreshHistory ==
    /\ reads < MaxReads
    /\ \E kw \in RefreshKwargs :
          LET st == Get(Ctx(cache, calls, FALSE), "refresh_history", history_params)
          IN  /\ cache' = st.cache /\ calls' = st.calls
              /\ history_params' = ParamsAfter("refresh_history")
              /\ kwargs' = kw
              /\ called' = "refresh_history"
              /\ result' = IF st.raised THEN ValueError ELSE TypeError
    /\ reads' = reads + 1
    /\ UNCHANGED inputVars

Next == ReadAccessor \/ ReadRefreshHistory \/ CallRefreshHistory

Spec == Init /\ [][Next]_vars

(***************************************************************************)
(* Properties                                                              *)
(***************************************************************************)
\* The cell of table t on the row labelled label, in column name.
Cell(t, label, name) == t.data[RowOf(t, label)][ColPos(t, name)]

IncomeExtract == extract_income_stmt_metrics(income_stmt)

CashflowExtract == extract_cashflow_stmt_metrics(cashflow_stmt)

BalanceExtract == extract_balance_sheet_metrics(balance_sheet)

InAllExtracts == Labels(IncomeExtract) \cap Labels(CashflowExtract) \cap Labels(BalanceExtract)

InSomeExtract == Labels(IncomeExtract) \cup Labels(CashflowExtract) \cup Labels(BalanceExtract)

IsRatio(x, num, den) == IsFinite(x) /\ x.n * den.n * num.d = num.n * den.d * x.d

\* C6 as stated: on every row of build_fundamentals' output the four margins
\* are the unrounded ratios to TotalRevenue, and all four are null when
\* TotalRevenue is zero or null (never infinite).
C6_MarginsNullOnZeroRevenue ==
    called = "build_fundamentals" =>
       \A l \in Labels(result) :
          LET rev == Cell(result, l, "Total Revenue")
              ok(margin, numerator) ==
                  IF IsNull(rev) \/ rev.n = 0
                  THEN IsNull(Cell(result, l, margin))
                  ELSE \/ IsNull(Cell(result, l, numerator)) /\ IsNull(Cell(result, l, margin))
                       \/ IsRatio(Cell(result, l, margin), Cell(result, l, numerator), rev)
          IN  /\ ok("Gross Margin", "Gross Profit")
              /\ ok("Operating Margin", "Operating Income")
              /\ ok("Net Margin", "Net Income")
              /\ ok("Free Cash Flow Margin", "Free Cash Flow")

Lacks(t, columns) == \E j \in 1..Len(columns) : ~HasCol(t, columns[j])

RatioFields == <<"PeRatio", "ForwardPeRatio", "PsRatio", "PbRatio",
                 "EnterprisesValueEBITDARatio", "EnterprisesValueRevenueRatio">>

Raised(r, type) == IsError(r) /\ r.error = type

\* C2: an extractor or builder raises KeyError (the spec's MissingFieldError)
\* exactly when its input lacks a column it selects, and then returns no
\* table; a column that is present raises nothing, whatever nulls it holds.
C2_MissingColumnRaises ==
    /\ called = "extract_income_stmt_metrics" =>
          IF Lacks(income_stmt, IncomeColumns) THEN Raised(result, "KeyError") ELSE ~IsError(result)
    /\ called = "extract_cashflow_stmt_metrics" =>
          IF Lacks(cashflow_stmt, CashflowColumns) THEN Raised(result, "KeyError") ELSE ~IsError(result)
    /\ called = "extract_balance_sheet_metrics" =>
          IF Lacks(balance_sheet, BalanceColumns) THEN Raised(result, "KeyError") ELSE ~IsError(result)
    /\ called = "build_fundamentals" =>
          IF \/ Lacks(income_stmt, IncomeColumns)
             \/ Lacks(cashflow_stmt, CashflowColumns)
             \/ Lacks(balance_sheet, BalanceColumns)
          THEN Raised(result, "KeyError") ELSE ~IsError(result)
    /\ called = "build_valuation" =>
          IF Lacks(raw_valuation, <<"asOfDate">> \o RatioFields)
          THEN Raised(result, "KeyError") ELSE ~IsError(result)

\* C2 witness: build_valuation raised on a table that has its as-of column
\* and lacks a ratio field.
C2_Witness ==
    /\ called = "build_valuation"
    /\ HasCol(raw_valuation, "asOfDate")
    /\ ~HasCol(raw_valuation, "PbRatio")
    /\ Raised(result, "KeyError")

\* The source row of df that carries the label l.
SourceRow(l) == RowOf(df, l)

\* The cell of column j of df on row i, NaN before the first row.
Source(i, j) == IF i \in 1..NRows(df) THEN df.data[i][j] ELSE NaN

\* The same, after pct_change's forward fill when pandas pads by default.
Filled(i, j) ==
    IF fill_method = "pad" /\ i >= 1
    THEN LET seen == {k \in 1..i : ~IsNull(df.data[k][j])}
         IN  IF seen = {} THEN NaN ELSE df.data[CHOOSE k \in seen : \A m \in seen : m <= k][j]
    ELSE Source(i, j)

IsMarginColumn(j) == df.columns[j] \in {"NetMargin", "Net Margin"}

\* What the arithmetic of column j reads on row i: pct_change fills, the
\* margin difference does not.
Operand(i, j) == IF IsMarginColumn(j) THEN Source(i, j) ELSE Filled(i, j)

\* The output column names the suffix rule gives the columns of the model.
ExpectedName(col) ==
    CASE col = "TotalRevenue" -> "TotalRevenue Growth (%)"
      [] col = "NetMargin"    -> "NetMargin Change (bps)"
      [] col = "Net Margin"   -> "Net Margin Change (bps)"
      [] col = "MarginCall"   -> "MarginCall Growth (%)"
      [] col = "Dividend"     -> "Dividend Growth (%)"

\* (value[i] - value[i-periods]) * 100 and
\* (value[i] - value[i-periods]) / value[i-periods] * 100 in float arithmetic,
\* on the cells read by cell(_, _).
Formula(cell(_, _), i, j) ==
    LET now == cell(i, j)
        lag == cell(i - periods, j)
    IN  IF IsMarginColumn(j) THEN Mul(Sub(now, lag), Num(100))
        ELSE Mul(Div(Sub(now, lag), lag), Num(100))

GrowthNamesInOrder ==
    /\ Len(result.columns) = Len(df.columns)
    /\ \A j \in 1..Len(df.columns) : result.columns[j] = ExpectedName(df.columns[j])

\* C3 as stated: one output column per input column, suffixed by unit, whose
\* value on row i is the formula of the claim on the input values (taken
\* where the formula is defined: both operands present, the lag nonzero).
C3_UnroundedFormula ==
    called = "compute_growth" =>
       /\ GrowthNamesInOrder
       /\ \A l \in Labels(result) : \A j \in 1..Len(df.columns) :
             LET i == SourceRow(l)
             IN  (/\ IsFinite(Source(i, j))
                  /\ IsFinite(Source(i - periods, j))
                  /\ Source(i - periods, j).n # 0)
                 => result.data[RowOf(result, l)][j] = Formula(Source, i, j)

\* C3 amended: the value on row i is the formula rounded to two decimals, in
\* float arithmetic (x/0 is +-inf, 0/0 and any null operand give null); for a
\* percent-change column the operands are the column after pct_change's
\* default fill (nulls forward-filled where pandas pads by default).  The
\* first `periods` rows, null in every column, are not among the rows returned.
C3_RoundedFormula ==
    called = "compute_growth" =>
       /\ GrowthNamesInOrder
       /\ \A l \in Labels(result) :
             /\ SourceRow(l) > periods
             /\ \A j \in 1..Len(df.columns) :
                   result.data[RowOf(result, l)][j] =
                      Round2(Formula(Operand, SourceRow(l), j))

\* C3 witness: a returned percent-change cell that rounding changed, beside
\* a basis-point column.
C3_Witness ==
    /\ called = "compute_growth"
    /\ \E l \in Labels(result) : \E j \in 1..Len(df.columns) :
          /\ ~IsMarginColumn(j)
          /\ IsFinite(result.data[RowOf(result, l)][j])
          /\ result.data[RowOf(result, l)][j] # Formula(Filled, SourceRow(l), j)
    /\ \E j \in 1..Len(df.columns) : IsMarginColumn(j)

\* C4 as stated: a percent-change cell is null whenever the lagged value is
\* zero or either operand is null.
C4_NullOnZeroOrNullOperand ==
    called = "compute_growth" =>
       \A l \in Labels(result) : \A j \in 1..Len(df.columns) :
          LET i == SourceRow(l)
          IN  (/\ ~IsMarginColumn(j)
               /\ i > periods
               /\ \/ IsNull(Source(i, j))
                  \/ IsNull(Source(i - periods, j))
                  \/ Source(i - periods, j).n = 0)
              => IsNull(result.data[RowOf(result, l)][j])

\* The cell compute_growth is to hold on source row i, column j.
Expected(i, j) ==
    IF i <= periods THEN NaN
    ELSE Round2(Formula(Operand, i, j))

\* C5: a source row is left out exactly when every output column is null on
\* it; a retained row keeps its nulls; the leading `periods` rows are left out.
C5_OnlyAllNullRowsDropped ==
    called = "compute_growth" =>
       /\ \A i \in 1..NRows(df) :
             df.index[i] \in Labels(result) <=>
                \E j \in 1..Len(df.columns) : ~IsNull(Expected(i, j))
       /\ \A l \in Labels(result) : \A j \in 1..Len(df.columns) :
             IsNull(result.data[RowOf(result, l)][j]) <=> IsNull(Expected(SourceRow(l), j))
       /\ \A i \in 1..NRows(df) : i <= periods => df.index[i] \notin Labels(result)
       /\ \A k \in 1..(NRows(result) - 1) : SourceRow(result.index[k]) < SourceRow(result.index[k + 1])

\* C5 witness: a returned row with one null and one non-null cell, from a
\* table whose other rows were dropped.
C5_Witness ==
    /\ called = "compute_growth"
    /\ NRows(result) < NRows(df) - periods
    /\ \E k \in 1..NRows(result) :
          /\ \E j \in 1..Len(result.columns) : IsNull(result.data[k][j])
          /\ \E j \in 1..Len(result.columns) : ~IsNull(result.data[k][j])

AllPresent(t, i) == \A j \in 1..Len(t.columns) : ~IsNull(t.data[i][j])

\* C7: extract_cashflow_stmt_metrics returns exactly the input rows whose
\* three fields are non-null, in their order, with CapitalExpenditure negated
\* and the other two fields unchanged; no returned cell is null.
C7_CapexNegatedCompleteRows ==
    called = "extract_cashflow_stmt_metrics" =>
       /\ result.columns = CashflowColumns
       /\ result.index = SelectSeq(cashflow_stmt.index,
                                   LAMBDA l : AllPresent(cashflow_stmt, RowOf(cashflow_stmt, l)))
       /\ \A l \in Labels(result) :
             /\ Cell(result, l, "FreeCashFlow") = Cell(cashflow_stmt, l, "FreeCashFlow")
             /\ Cell(result, l, "StockBasedCompensation") = Cell(cashflow_stmt, l, "StockBasedCompensation")
             /\ IsFinite(Cell(result, l, "CapitalExpenditure"))
             /\ Add(Cell(result, l, "CapitalExpenditure"),
                    Cell(cashflow_stmt, l, "CapitalExpenditure")) = Num(0)

\* C7 witness: an input row with CapitalExpenditure = -500 came out as 500
\* while a row with a null was left out.
C7_Witness ==
    /\ called = "extract_cashflow_stmt_metrics"
    /\ NRows(result) < NRows(cashflow_stmt)
    /\ \E l \in Labels(result) :
          /\ Cell(cashflow_stmt, l, "CapitalExpenditure") = Num(-500)
          /\ Cell(result, l, "CapitalExpenditure") = Num(500)

RECURSIVE RatPow(_, _)
\* The k-th power of the finite float x (k >= 0).
RatPow(x, k) == IF k = 0 THEN Num(1) ELSE Mul(x, RatPow(x, k - 1))

\* C8 as stated: cagr never raises; it returns a null (NaN) result when
\* start <= 0 or periods <= 0, and (end/start)^(1/periods) - 1 otherwise.
C8_CagrTotal ==
    called = "cagr" =>
       LET start == cagr_args[1]
           end   == cagr_args[2]
           nper  == cagr_args[3]
       IN  /\ ~IsError(result)
           /\ IF start <= 0 \/ nper <= 0
              THEN result.type = "float" /\ IsNaN(result.v)
              ELSE \/ result.type = "surd" /\ result.base = Frac(end, start) /\ result.root = nper
                   \/ /\ result.type = "float"
                      /\ RatPow(Add(result.v, Num(1)), nper) = Frac(end, start)

\* The characters of date labels in ASCII order.
DateChars == <<"-", "0", "1", "2", "3", "4", "5", "6", "7", "8", "9">>

Ord(c) == CHOOSE k \in 1..Len(DateChars) : DateChars[k] = c

RECURSIVE LexLe(_, _)
\* a <= b as Python compares strings, on characters.
LexLe(a, b) ==
    IF a = <<>> THEN TRUE
    ELSE IF b = <<>> THEN FALSE
    ELSE IF Ord(Head(a)) < Ord(Head(b)) THEN TRUE
    ELSE IF Ord(Head(a)) > Ord(Head(b)) THEN FALSE
    ELSE LexLe(Tail(a), Tail(b))

\* C9 as stated: the date index of build_valuation's table is ascending,
\* whatever the row order of the raw table.
C9_ValuationIndexSorted ==
    (called = "build_valuation" /\ ~IsError(result)) =>
       \A k \in 1..(NRows(result) - 1) :
          LexLe(Chars(result.index[k]), Chars(result.index[k + 1]))

StatementMethods == {"get_income_stmt", "get_cashflow_stmt", "get_balance_sheet"}

\* C10 as stated: no statement is fetched twice for one combination of
\* statement type and frequency.  The trailing-twelve-months variant of a
\* statement is counted as a combination of its own, which only weakens the
\* statement: two calls offend when they are the same call.
C10_OneFetchPerStatementAndFrequency ==
    \A i, j \in 1..Len(calls) :
       (/\ i < j
        /\ calls[i].method \in StatementMethods
        /\ calls[i].method = calls[j].method
        /\ calls[i].trailing = calls[j].trailing)
       => calls[i].frequency # calls[j].frequency

RECURSIVE RemoveSpaces(_)
RemoveSpaces(cs) ==
    IF cs = <<>> THEN <<>>
    ELSE IF Head(cs) = " " THEN RemoveSpaces(Tail(cs))
    ELSE <<Head(cs)>> \o RemoveSpaces(Tail(cs))

IsAcronym(cs) == cs # <<>> /\ \A i \in 1..Len(cs) : cs[i] \in Upper

\* C11: split_camel_case is idempotent and only inserts spaces.  For every
\* identifier of uppercase letters, lowercase letters and digits, splitting
\* the result again changes nothing, removing the spaces of the result gives
\* the identifier back character for character (so no case is altered), and
\* an identifier that is a single acronym is returned unchanged.
C11_SplitIdempotentSpacesOnly ==
    called = "split_camel_case" =>
       /\ SplitChars(result) = result
       /\ RemoveSpaces(result) = identifier
       /\ (IsAcronym(identifier) => result = identifier)

\* C11's case: an acronym running into a word and a lowercase-to-capital
\* boundary ("ABaB" gives "A Ba B"), where both substitutions act.
C11_Witness ==
    /\ called = "split_camel_case"
    /\ identifier = <<"A", "B", "a", "B">>
    /\ result = <<"A", " ", "B", "a", " ", "B">>

\* C12 as stated: after the call refresh_history(**kw) a provided period is
\* held with start = end = None (also when start is provided with it), a
\* provided start without period clears period, a provided interval
\* replaces the interval, and the call returns, and caches as
\* price_history, the history fetched with the updated parameters.  Stated
\* for the calls that pass a keyword, on an instance whose parameters let
\* the fetch go through.
C12_RefreshUpdatesParams ==
    (/\ called = "refresh_history"
     /\ kwargs # NoKwargs
     /\ ~fetch_price_history_raises(history_params)) =>
       /\ kwargs.period # None =>
             /\ history_params.period = kwargs.period
             /\ history_params.start = None /\ history_params.end = None
       /\ (kwargs.start # None /\ kwargs.period = None) =>
             /\ history_params.start = kwargs.start
             /\ history_params.period = None
       /\ kwargs.interval # None => history_params.interval = kwargs.interval
       /\ ~IsError(result)
       /\ "price_history" \in DOMAIN cache
       /\ cache["price_history"].params = history_params

\* C13 as stated: whenever price_history and dividend_yield_history are both
\* cached, the cached dividend_yield_history is the one computed from the
\* cached price_history.
C13_YieldOfCachedHistory ==
    ("price_history" \in DOMAIN cache /\ "dividend_yield_history" \in DOMAIN cache) =>
       cache["dividend_yield_history"].of = <<cache["price_history"]>>

====
